---- MODULE Spec2Model ----
(***************************************************************************)
(* reconstructReceipt (src/src/index.tsx): the layout reconstruction of a  *)
(* scanned page from its OCR text blocks.  Further down: the native        *)
(* LineCluster recognizer (TextRecognizerV2) and the page limit of         *)
(* scanDocuments, each with its own specification.                         *)
(*                                                                         *)
(* Numbers.  The source computes with IEEE doubles; the model computes     *)
(* exactly, on a grid:                                                     *)
(*   frame.x, frame.y, frame.width, frame.height   in hundredths (0..100)  *)
(*   confidence, minConfidence, rowGroupingFactor  in tenths               *)
(*   heights and typicalHeight                     in 1/200  (2 * height)  *)
(*   midY and medianMidY                           in 1/400  (4y + 2h)     *)
(*   threshold and the distances compared with it  in 1/2000               *)
(* so that every division by two of the source is exact.                   *)
(* Strings are sequences of one-character strings.  An optional value      *)
(* (a property that may be undefined) is << >> or << v >>.                 *)
(***************************************************************************)
EXTENDS Integers, Sequences, FiniteSets, TLC

VARIABLES
    scanResult,  \* the caller's first argument: [metadata, blocks, text], each optional
    options,     \* the caller's second argument: [lineWidth, minConfidence, rowGroupingFactor]
    pc,          \* "call" | "group" | "done": where the call stands
    mode,        \* the ReconstructMode handed to reconstructFromBlocks, "none" before / without
    filtered,    \* reconstructFromBlocks: const filtered
    threshold,   \* reconstructFromBlocks: const threshold (1/2000)
    sorted,      \* reconstructFromBlocks: const sorted
    idx,         \* number of blocks of sorted the grouping loop has consumed
    rows,        \* reconstructFromBlocks: const rows (Row[])
    render,      \* per rendered row: its rowBlocks, the col of each and the finished line
    result,      \* what the call gave: [kind: "pending" | "return" | "throw", str, error]
    history,     \* the calls already returned, oldest first: [scanResult, options, result]
    \* TextRecognizerV2 (native LineCluster recognizer)
    elements,    \* the OCR word elements handed to the recognizer
    sortedElements, \* val sortedElements
    clusters,    \* val clusters = mutableListOf<LineCluster>()
    eidx,        \* number of sortedElements the clustering loop has consumed
    v2pc,        \* "idle" | "cluster" | "done" | "crash"
    v2lines,     \* per rendered cluster: its lineString and the spaces put before each element
    v2result,    \* resultMap: [text, blocks]
    \* scanDocuments (native page limit)
    platform,    \* "none" | "ios" | "android": where the native code runs
    maxPageCountOption, \* options["maxPageCount"] as the caller passed it, optional
    pageCount,   \* pages the user scanned in the system scanner
    images,      \* number of page results collected so far
    scanPc,      \* "idle" | "scanning" | "processing" | "resolved"
    \* DocumentScannerModule (Android): the scan promise
    scanPromise, \* private var scanPromise: the number of the call whose promise it is, 0 for null
    currentScanOptions, \* private var currentScanOptions: the call whose options they are, 0 for null
    scanCalls,   \* scanDocuments calls made so far; call n brings promise n
    stage,       \* "idle" | "intent" | "ui" | "processing": what the launched scan waits for
    inFlight,    \* the call whose scanner was launched last
    pendingCleanup, \* "none" | "promise" | "promiseAndOptions" | "options": assignments a handler has still to make
    outcomes,    \* per promise, the settlements it received, oldest first
    \* DocumentScannerManager (iOS): the stored promise blocks
    resolve,     \* private var resolve: the call whose block it is, 0 for nil
    reject,      \* private var reject: the call whose block it is, 0 for nil
    scanOptions, \* private var scanOptions: the call whose options they are, 0 for nil
    iosCalls,    \* scanDocuments / processDocuments calls made so far
    jobs,        \* per call, its kind and how far its asynchronous work has come
    iosOutcomes  \* per promise, the settlements it received, oldest first

recVars == <<scanResult, options, pc, mode, filtered, threshold, sorted, idx, rows, render, result, history>>
nativeVars == <<elements, sortedElements, clusters, eidx, v2pc, v2lines, v2result>>
scanVars == <<platform, maxPageCountOption, pageCount, images, scanPc>>
androidVars == <<scanPromise, currentScanOptions, scanCalls, stage, inFlight, pendingCleanup, outcomes>>
iosVars == <<resolve, reject, scanOptions, iosCalls, jobs, iosOutcomes>>
moduleVars == <<androidVars, iosVars>>
vars == <<recVars, nativeVars, scanVars, moduleVars>>

---------------------------------------------------------------------------
(* Bounds of the input space *)

MaxBlocks == 3
MaxTextLen == 3

---------------------------------------------------------------------------
(* Optional values and small helpers *)

None == << >>
Some(v) == << v >>
IsSome(o) == Len(o) = 1
Get(o) == o[1]
OrElse(o, d) == IF IsSome(o) THEN Get(o) ELSE d

Max(a, b) == IF a >= b THEN a ELSE b
Abs(a) == IF a >= 0 THEN a ELSE 0 - a

WhiteSpace == {" ", "\n", "\t"}

Return(s) == [kind |-> "return", str |-> s, error |-> ""]
Throw(e) == [kind |-> "throw", str |-> << >>, error |-> e]
Pending == [kind |-> "pending", str |-> << >>, error |-> ""]

---------------------------------------------------------------------------
(* String.prototype.trimEnd *)

TrimBothEnds(s) ==
    LET keep == {i \in 1..Len(s) : s[i] \notin WhiteSpace}
    IN IF keep = {} THEN << >>
       ELSE SubSeq(s, CHOOSE i \in keep : \A j \in keep : i <= j,
                      CHOOSE i \in keep : \A j \in keep : i >= j)

RECURSIVE TrimEnd(_)
TrimEnd(s) ==
    IF s = << >> THEN << >>
    ELSE IF s[Len(s)] \in WhiteSpace THEN TrimEnd(SubSeq(s, 1, Len(s) - 1))
    ELSE s

RECURSIVE JoinTerminated(_, _)
JoinTerminated(lines, sep) ==
    IF lines = << >> THEN << >>
    ELSE lines[1] \o << sep >> \o JoinTerminated(Tail(lines), sep)

(* Array.prototype.join with a one-character separator *)
RECURSIVE Join(_, _)
Join(lines, sep) ==
    IF lines = << >> THEN << >>
    ELSE IF Len(lines) = 1 THEN lines[1]
    ELSE lines[1] \o << sep >> \o Join(Tail(lines), sep)

(* Array.prototype.sort with a comparator (a, b) => key(a) - key(b): stable *)
(* (ECMAScript 2019), here on a sequence of [key, val] pairs.               *)
InsertStable(t, e) ==
    LET n == Cardinality({i \in 1..Len(t) : t[i].key <= e.key})
    IN SubSeq(t, 1, n) \o << e >> \o SubSeq(t, n + 1, Len(t))

RECURSIVE StableSort(_)
StableSort(s) ==
    IF s = << >> THEN << >>
    ELSE InsertStable(StableSort(SubSeq(s, 1, Len(s) - 1)), s[Len(s)])

Vals(s) == [i \in 1..Len(s) |-> s[i].val]

RECURSIVE Sum(_)
Sum(values) == IF values = << >> THEN 0 ELSE Head(values) + Sum(Tail(values))

SortNumbers(values) ==
    Vals(StableSort([i \in 1..Len(values) |-> [key |-> values[i], val |-> values[i]]]))

(* Math.round: the nearest integer, halves towards +Infinity; x in hundredths *)
RoundFloor(x, lineWidth) == (x * lineWidth) \div 100

Round(x, lineWidth) == (2 * x * lineWidth + 100) \div 200

---------------------------------------------------------------------------
(* reconstructReceipt: destructuring and mode selection *)

DefaultLineWidth == 56

BlocksOf(sr) == OrElse(sr.blocks, << >>)
TextOf(sr) == OrElse(sr.text, << >>)
LineWidth(opts) == OrElse(opts.lineWidth, DefaultLineWidth)

(* metadata?.textVersion === 2 && metadata.ocrEngine !== 'RecognizeDocumentsRequest' *)
IsNativeV2(metadata) ==
    /\ IsSome(metadata)
    /\ Get(metadata).textVersion = 2
    /\ Get(metadata).ocrEngine # "RecognizeDocumentsRequest"

SelectModeKnownOnly(metadata) ==
    IF IsSome(metadata)
       /\ Get(metadata).ocrEngine \notin {"VNRecognizeTextRequest", "MLKit", "none"}
    THEN "paragraphs" ELSE "clustered"

SelectMode(metadata) ==
    IF IsNativeV2(metadata) THEN "clustered"
    ELSE IF IsSome(metadata) /\ Get(metadata).ocrEngine = "RecognizeDocumentsRequest"
    THEN "paragraphs"
    ELSE "clustered"

(* MODE_FACTOR, in tenths *)
MODE_FACTOR(m) == IF m = "paragraphs" THEN 5 ELSE 4

RowGroupingFactor(opts, m) == OrElse(opts.rowGroupingFactor, MODE_FACTOR(m))

---------------------------------------------------------------------------
(* reconstructFromBlocks, step 1: the confidence filter *)

FilterStrict(blocks, minConfidence) ==
    IF IsSome(minConfidence)
    THEN SelectSeq(blocks,
             LAMBDA b : ~IsSome(b.confidence) \/ Get(b.confidence) > Get(minConfidence))
    ELSE blocks

FilterNone(blocks, minConfidence) == blocks

Filter(blocks, minConfidence) ==
    IF IsSome(minConfidence)
    THEN SelectSeq(blocks,
             LAMBDA b : ~IsSome(b.confidence) \/ Get(b.confidence) >= Get(minConfidence))
    ELSE blocks

(* step 2: the median block height (1/200) and the threshold (1/2000) *)
TypicalHeightUpperMiddle(blocks) ==
    LET heights == SortNumbers([i \in 1..Len(blocks) |-> 2 * blocks[i].frame.height])
        hMid == Len(heights) \div 2
    IN heights[hMid + 1]

TypicalHeight(blocks) ==
    LET heights == SortNumbers([i \in 1..Len(blocks) |-> 2 * blocks[i].frame.height])
        hMid == Len(heights) \div 2
    IN IF Len(heights) % 2 = 0
       THEN (heights[hMid] + heights[hMid + 1]) \div 2
       ELSE heights[hMid + 1]

Threshold(blocks, rowGroupingFactor) ==
    LET typicalHeight == TypicalHeight(blocks)
    IN rowGroupingFactor * (IF typicalHeight > 0 THEN typicalHeight ELSE 4)

(* step 4, line 170: const rows: Row[] = [] is a new array in every call;  *)
(* a rows array declared outside the function would keep the rows of the   *)
(* call before.                                                            *)
RowsOfPreviousCall(old) == old

NewRows(old) == << >>

(* step 3: sort by midY (1/400), ascending *)
MidY(b) == 4 * b.frame.y + 2 * b.frame.height

SortByMidYMissing(blocks) == blocks

SortByMidY(blocks) ==
    Vals(StableSort([i \in 1..Len(blocks) |-> [key |-> MidY(blocks[i]), val |-> blocks[i]]]))

(* What step 3 leaves in the array it was given.  [...filtered] is a new     *)
(* array, so the sort reorders the copy and the array named filtered keeps  *)
(* its order; sorting it in place would leave it sorted.                    *)
ArrayAfterSortInPlace(arr) == SortByMidY(arr)

ArrayAfterSortOfCopy(arr) == arr

(* The caller's blocks array once step 3 has run.  Without minConfidence    *)
(* step 1 makes filtered the caller's array itself (no copy); with it,      *)
(* blocks.filter returns a new array.  An absent blocks property defaults   *)
(* to a new [] that the caller never sees.                                  *)
CallerBlocksAfterSort(sr, opts) ==
    IF sr.blocks # None /\ opts.minConfidence = None
    THEN Some(ArrayAfterSortOfCopy(Get(sr.blocks)))
    ELSE sr.blocks

---------------------------------------------------------------------------
(* step 4: greedy row grouping *)

computeMean(values) ==
    LET s == SortNumbers(values)
    IN Sum(s) \div Len(s)

computeMedian(values) ==
    LET s == SortNumbers(values)
        m == Len(s) \div 2
    IN IF Len(s) % 2 = 0 THEN (s[m] + s[m + 1]) \div 2 ELSE s[m + 1]

(* the inner loop: the index of bestRow after rows[i..], 0 for null; bestDist *)
(* is read only when best # 0 (the source starts it at Infinity)             *)
RECURSIVE BestRowInclusive(_, _, _, _, _, _)
BestRowInclusive(rws, blockMidY, thr, i, best, bestDist) ==
    IF i > Len(rws) THEN best
    ELSE LET dist == Abs(rws[i].medianMidY - blockMidY)
         IN IF 5 * dist <= thr /\ (best = 0 \/ dist < bestDist)
            THEN BestRowInclusive(rws, blockMidY, thr, i + 1, i, dist)
            ELSE BestRowInclusive(rws, blockMidY, thr, i + 1, best, bestDist)

RECURSIVE BestRowLastWins(_, _, _, _, _, _)
BestRowLastWins(rws, blockMidY, thr, i, best, bestDist) ==
    IF i > Len(rws) THEN best
    ELSE LET dist == Abs(rws[i].medianMidY - blockMidY)
         IN IF 5 * dist < thr /\ (best = 0 \/ dist <= bestDist)
            THEN BestRowLastWins(rws, blockMidY, thr, i + 1, i, dist)
            ELSE BestRowLastWins(rws, blockMidY, thr, i + 1, best, bestDist)

RECURSIVE BestRow(_, _, _, _, _, _)
BestRow(rws, blockMidY, thr, i, best, bestDist) ==
    IF i > Len(rws) THEN best
    ELSE LET dist == Abs(rws[i].medianMidY - blockMidY)
         IN IF 5 * dist < thr /\ (best = 0 \/ dist < bestDist)
            THEN BestRow(rws, blockMidY, thr, i + 1, i, dist)
            ELSE BestRow(rws, blockMidY, thr, i + 1, best, bestDist)

AssignRowMidYOnly(rws, block, thr) ==
    LET blockMidY == MidY(block)
        bestRow == BestRow(rws, blockMidY, thr, 1, 0, 0)
    IN IF bestRow # 0
       THEN [rws EXCEPT ![bestRow] =
                [blocks |-> @.blocks,
                 midYs |-> Append(@.midYs, blockMidY),
                 medianMidY |-> computeMedian(Append(@.midYs, blockMidY))]]
       ELSE Append(rws, [blocks |-> << block >>,
                         midYs |-> << blockMidY >>,
                         medianMidY |-> blockMidY])

(* one iteration of `for (const block of sorted)` *)
AssignRow(rws, block, thr) ==
    LET blockMidY == MidY(block)
        bestRow == BestRow(rws, blockMidY, thr, 1, 0, 0)
    IN IF bestRow # 0
       THEN [rws EXCEPT ![bestRow] =
                [blocks |-> Append(@.blocks, block),
                 midYs |-> Append(@.midYs, blockMidY),
                 medianMidY |-> computeMedian(Append(@.midYs, blockMidY))]]
       ELSE Append(rws, [blocks |-> << block >>,
                         midYs |-> << blockMidY >>,
                         medianMidY |-> blockMidY])

RECURSIVE GroupRows(_, _, _)
GroupRows(rws, blocks, thr) ==
    IF blocks = << >> THEN rws
    ELSE GroupRows(AssignRow(rws, Head(blocks), thr), Tail(blocks), thr)

(* step 5: rows.sort((a, b) => a.medianMidY - b.medianMidY) *)
SortRows(rws) ==
    Vals(StableSort([i \in 1..Len(rws) |-> [key |-> rws[i].medianMidY, val |-> rws[i]]]))

---------------------------------------------------------------------------
(* step 6: render each row into a character buffer of lineWidth columns *)

SortByXMissing(blocks) == blocks

SortByX(blocks) ==
    Vals(StableSort([i \in 1..Len(blocks) |-> [key |-> blocks[i].frame.x, val |-> blocks[i]]]))

CursorNoGap(col, text) == col + Len(text)

(* cursor = col + block.text.length + 1 *)
Cursor(col, text) == col + Len(text) + 1

RECURSIVE PlaceBlocksUnbounded(_, _, _, _)
PlaceBlocksUnbounded(rowBlocks, k, st, lineWidth) ==
    IF k > Len(rowBlocks) THEN st
    ELSE LET block == rowBlocks[k]
             col == Max(Round(block.frame.x, lineWidth), st.cursor)
             buf == [p \in 1..Max(Len(st.buf), col + Len(block.text)) |->
                        IF p - 1 >= col /\ p - 1 < col + Len(block.text)
                        THEN block.text[p - col]
                        ELSE IF p <= Len(st.buf) THEN st.buf[p] ELSE " "]
         IN PlaceBlocksUnbounded(rowBlocks, k + 1,
                        [buf |-> buf,
                         cursor |-> Cursor(col, block.text),
                         cols |-> Append(st.cols, col)],
                        lineWidth)

(* the loop over rowBlocks from block k on; st = [buf, cursor, cols];      *)
(* buf[p] is column p - 1 of the source's zero-based buffer                *)
RECURSIVE PlaceBlocks(_, _, _, _)
PlaceBlocks(rowBlocks, k, st, lineWidth) ==
    IF k > Len(rowBlocks) THEN st
    ELSE LET block == rowBlocks[k]
             col == Max(Round(block.frame.x, lineWidth), st.cursor)
             buf == [p \in 1..lineWidth |->
                        IF p - 1 >= col /\ p - 1 < col + Len(block.text)
                        THEN block.text[p - col]
                        ELSE st.buf[p]]
         IN PlaceBlocks(rowBlocks, k + 1,
                        [buf |-> buf,
                         cursor |-> Cursor(col, block.text),
                         cols |-> Append(st.cols, col)],
                        lineWidth)

(* lineWidth >= 0 here: new Array(lineWidth) has thrown otherwise *)
RenderRow(row, lineWidth) ==
    LET rowBlocks == SortByX(row.blocks)
        st == PlaceBlocks(rowBlocks, 1,
                          [buf |-> [p \in 1..lineWidth |-> " "], cursor |-> 0, cols |-> << >>],
                          lineWidth)
    IN [rowBlocks |-> rowBlocks,
        cols |-> st.cols,
        medianMidY |-> row.medianMidY,
        line |-> TrimEnd(st.buf)]

RenderRows(rws, lineWidth) ==
    IF lineWidth < 0 THEN << >>
    ELSE [r \in 1..Len(rws) |-> RenderRow(rws[r], lineWidth)]

(* steps 5 and 6 and the return; rws is not empty, so a negative lineWidth *)
(* reaches new Array(lineWidth), a RangeError                             *)
RenderAll(rws, lineWidth) ==
    IF lineWidth < 0 THEN Throw("RangeError")
    ELSE LET rendered == RenderRows(SortRows(rws), lineWidth)
         IN Return(Join([r \in 1..Len(rendered) |-> rendered[r].line], "\n"))

---------------------------------------------------------------------------
(* the two functions as a whole *)

reconstructFromBlocks(blocks, m, opts) ==
    LET flt == Filter(blocks, opts.minConfidence)
    IN IF Len(flt) = 0 THEN Return(<< >>)
       ELSE RenderAll(GroupRows(<< >>, SortByMidY(flt),
                                Threshold(flt, RowGroupingFactor(opts, m))),
                      LineWidth(opts))

reconstructReceipt(sr, opts) ==
    IF IsNativeV2(sr.metadata) /\ TextOf(sr) # << >>
    THEN Return(TrimEnd(TextOf(sr)))
    ELSE reconstructFromBlocks(BlocksOf(sr), SelectMode(sr.metadata), opts)

---------------------------------------------------------------------------
(* The inputs *)

Block(text, x, y, w, h, c) ==
    [text |-> text, frame |-> [x |-> x, y |-> y, width |-> w, height |-> h], confidence |-> c]

BlockPool ==
    { Block(<<"M", "i", "l", "k">>, 5, 10, 20, 3, Some(9)),
      Block(<<"$", "3", ".", "9", "9">>, 75, 11, 15, 3, Some(5)),
      Block(<<"B">>, 5, 10, 10, 3, Some(2)),
      Block(<<"T", "o", "t">>, 5, 50, 10, 2, None),
      Block(<<"x">>, 5, 9, 10, 5, Some(9)),
      Block(<< >>, 40, 10, 0, 0, Some(9)) }

RECURSIVE SeqsUpTo(_, _)
SeqsUpTo(S, n) ==
    IF n = 0 THEN { << >> }
    ELSE LET shorter == SeqsUpTo(S, n - 1)
         IN shorter \cup {Append(s, e) : s \in {t \in shorter : Len(t) = n - 1}, e \in S}

Engines == {"RecognizeDocumentsRequest", "VNRecognizeTextRequest", "MLKit", "none", "Tesseract"}

Metadatas ==
    {None} \cup {Some([textVersion |-> v, ocrEngine |-> e]) : v \in {1, 2}, e \in Engines}

Texts == {None} \cup {Some(t) : t \in SeqsUpTo({" ", "a", "\n"}, MaxTextLen)}

(* many block lists and options, few metadata *)
InitBlocks ==
    /\ scanResult \in
         [metadata : {None,
                      Some([textVersion |-> 2, ocrEngine |-> "RecognizeDocumentsRequest"])},
          blocks : {Some(bs) : bs \in SeqsUpTo(BlockPool, MaxBlocks)},
          text : {None}]
    /\ options \in
         [lineWidth : {None, Some(-1), Some(0), Some(8), Some(40)},
          minConfidence : {None, Some(5)},
          rowGroupingFactor : {None, Some(0), Some(20)}]

(* every metadata and text, few block lists and options *)
InitMode ==
    /\ scanResult \in
         [metadata : Metadatas,
          blocks : {None, Some(<< >>),
                    Some(<< Block(<<"M", "i", "l", "k">>, 5, 10, 20, 3, Some(9)),
                            Block(<<"B">>, 5, 10, 10, 3, Some(2)) >>)},
          text : Texts]
    /\ options \in
         [lineWidth : {None, Some(-1)},
          minConfidence : {None, Some(5)},
          rowGroupingFactor : {None}]

(* a call that has just been entered: no local exists yet *)
InitLocals ==
    /\ pc = "call"
    /\ mode = "none"
    /\ filtered = << >>
    /\ threshold = 0
    /\ sorted = << >>
    /\ idx = 0
    /\ rows = << >>
    /\ render = << >>
    /\ result = Pending
    /\ history = << >>

(* the recognizer is not running *)
NativeIdle ==
    /\ elements = << >>
    /\ sortedElements = << >>
    /\ clusters = << >>
    /\ eidx = 0
    /\ v2pc = "idle"
    /\ v2lines = << >>
    /\ v2result = [text |-> << >>, blocks |-> << >>]

(* no scan is in progress *)
ScanIdle ==
    /\ platform = "none"
    /\ maxPageCountOption = << >>
    /\ pageCount = 0
    /\ images = 0
    /\ scanPc = "idle"

MaxScanCalls == 3

NoPromise == 0

(* DocumentScannerModule after construction, no call made *)
AndroidIdle ==
    /\ scanPromise = NoPromise
    /\ currentScanOptions = 0
    /\ scanCalls = 0
    /\ stage = "idle"
    /\ inFlight = 0
    /\ pendingCleanup = "none"
    /\ outcomes = [p \in 1..MaxScanCalls |-> << >>]

MaxIosCalls == 2

(* DocumentScannerManager after construction, no call made *)
IosIdle ==
    /\ resolve = NoPromise
    /\ reject = NoPromise
    /\ scanOptions = 0
    /\ iosCalls = 0
    /\ jobs = [p \in 1..MaxIosCalls |-> [kind |-> "none", at |-> "none"]]
    /\ iosOutcomes = [p \in 1..MaxIosCalls |-> << >>]

ModuleIdle == AndroidIdle /\ IosIdle

Init ==
    /\ InitBlocks \/ InitMode
    /\ InitLocals
    /\ NativeIdle
    /\ ScanIdle
    /\ ModuleIdle

---------------------------------------------------------------------------
(* The call, step by step *)

(* reconstructReceipt, lines 94-100: V2 native text is returned directly *)
ReturnNativeText ==
    /\ pc = "call"
    /\ IsNativeV2(scanResult.metadata)
    /\ TextOf(scanResult) # << >>
    /\ result' = Return(TrimEnd(TextOf(scanResult)))
    /\ pc' = "done"
    /\ UNCHANGED <<scanResult, options, mode, filtered, threshold, sorted, idx, rows, render>>
    /\ UNCHANGED <<history, nativeVars, scanVars, moduleVars>>

(* reconstructReceipt, lines 101-112, and reconstructFromBlocks steps 1-3 *)
BeginBlocks ==
    /\ pc = "call"
    /\ ~(IsNativeV2(scanResult.metadata) /\ TextOf(scanResult) # << >>)
    /\ LET m == SelectMode(scanResult.metadata)
           flt == Filter(BlocksOf(scanResult), options.minConfidence)
       IN /\ mode' = m
          /\ filtered' = flt
          /\ IF Len(flt) = 0
             THEN /\ result' = Return(<< >>)
                  /\ pc' = "done"
                  /\ UNCHANGED <<scanResult, threshold, sorted, idx, rows>>
             ELSE /\ threshold' = Threshold(flt, RowGroupingFactor(options, m))
                  /\ sorted' = SortByMidY(flt)
                  /\ scanResult' = [scanResult EXCEPT
                                       !.blocks = CallerBlocksAfterSort(scanResult, options)]
                  /\ rows' = NewRows(rows)
                  /\ idx' = 0
                  /\ pc' = "group"
                  /\ UNCHANGED result
    /\ UNCHANGED <<options, render>>
    /\ UNCHANGED <<history, nativeVars, scanVars, moduleVars>>

(* one iteration of the grouping loop *)
GroupStep ==
    /\ pc = "group"
    /\ idx < Len(sorted)
    /\ rows' = AssignRow(rows, sorted[idx + 1], threshold)
    /\ idx' = idx + 1
    /\ UNCHANGED <<scanResult, options, pc, mode, filtered, threshold, sorted, render, result>>
    /\ UNCHANGED <<history, nativeVars, scanVars, moduleVars>>

(* steps 5 and 6 and the return *)
Render ==
    /\ pc = "group"
    /\ idx = Len(sorted)
    /\ rows' = SortRows(rows)
    /\ render' = RenderRows(SortRows(rows), LineWidth(options))
    /\ result' = RenderAll(rows, LineWidth(options))
    /\ pc' = "done"
    /\ UNCHANGED <<scanResult, options, mode, filtered, threshold, sorted, idx>>
    /\ UNCHANGED <<history, nativeVars, scanVars, moduleVars>>

Next == ReturnNativeText \/ BeginBlocks \/ GroupStep \/ Render

Spec == Init /\ [][Next]_vars

---------------------------------------------------------------------------
(* Calls that exercise the row grouping: fragments that differ in height   *)
(* and vertical position, one character each, spread over the columns.     *)
(* midY: a 0.125, b 0.145, c 0.155, d 0.10, e 0.50, f 0.105, g 0.10.       *)

RowPool ==
    { Block(<<"a">>, 5, 10, 10, 5, None),
      Block(<<"b">>, 30, 12, 10, 5, None),
      Block(<<"c">>, 60, 13, 10, 5, None),
      Block(<<"d">>, 5, 9, 10, 2, None),
      Block(<<"e">>, 30, 49, 10, 2, None),
      Block(<<"f">>, 60, 10, 10, 1, None),
      Block(<<"g">>, 80, 10, 10, 0, None) }

InitRowInputs ==
    /\ scanResult \in
         [metadata : {None,
                      Some([textVersion |-> 2, ocrEngine |-> "RecognizeDocumentsRequest"])},
          blocks : {Some(bs) : bs \in SeqsUpTo(RowPool, MaxBlocks)},
          text : {None}]
    /\ options \in
         [lineWidth : {None},
          minConfidence : {None},
          rowGroupingFactor : {None, Some(0), Some(7)}]

InitNativeText ==
    /\ scanResult = [metadata |-> Some([textVersion |-> 2, ocrEngine |-> "MLKit"]),
                     blocks |-> None,
                     text |-> Some(<<"a", "\n">>)]
    /\ options = [lineWidth |-> None, minConfidence |-> None, rowGroupingFactor |-> None]

InitRows ==
    /\ InitRowInputs \/ InitNativeText
    /\ InitLocals
    /\ NativeIdle
    /\ ScanIdle
    /\ ModuleIdle

SpecRows == InitRows /\ [][Next]_vars

---------------------------------------------------------------------------
(* The row selection of step 4 on its own, as a function of the rows that  *)
(* exist, the next fragment and the threshold: one iteration of the        *)
(* grouping loop entered with rows of one fragment each, in ascending      *)
(* medianMidY, and a fragment that may lie between them.                   *)

OneBlockRow(b) == [blocks |-> << b >>, midYs |-> << MidY(b) >>, medianMidY |-> MidY(b)]

AscendingRows ==
    {rs \in SeqsUpTo({OneBlockRow(b) : b \in RowPool}, MaxBlocks) :
        \A i \in 1..Len(rs) - 1 : rs[i].medianMidY < rs[i + 1].medianMidY}

SelectionThresholds == {0, 20, 50, 70}

InitSelection ==
    /\ rows \in AscendingRows
    /\ \E b \in RowPool : sorted = << b >>
    /\ threshold \in SelectionThresholds
    /\ scanResult = [metadata |-> None, blocks |-> Some(sorted), text |-> None]
    /\ options = [lineWidth |-> None, minConfidence |-> None, rowGroupingFactor |-> None]
    /\ filtered = sorted
    /\ mode = "clustered"
    /\ pc = "group"
    /\ idx = 0
    /\ render = << >>
    /\ result = Pending
    /\ history = << >>
    /\ NativeIdle
    /\ ScanIdle
    /\ ModuleIdle

NextSelection == GroupStep \/ Render

SpecSelection == InitSelection /\ [][NextSelection]_vars

---------------------------------------------------------------------------
(* Several calls, one after the other.  JavaScript runs a synchronous       *)
(* function to its end before anything else, so calls never interleave.     *)

MaxCalls == 3

CallInputs ==
    [scanResult :
        [metadata : {None, Some([textVersion |-> 2, ocrEngine |-> "MLKit"])},
         blocks : {Some(<< >>),
                   Some(<< Block(<<"T", "o", "t">>, 5, 50, 10, 2, None),
                           Block(<<"x">>, 5, 9, 10, 5, Some(9)) >>)},
         text : {None, Some(<<"a", "\n">>)}],
     options : {[lineWidth |-> None, minConfidence |-> None, rowGroupingFactor |-> None]}]

InitCalls ==
    /\ \E in \in CallInputs : scanResult = in.scanResult /\ options = in.options
    /\ InitLocals
    /\ NativeIdle
    /\ ScanIdle
    /\ ModuleIdle

(* the call has returned or thrown and the caller calls again: the locals  *)
(* of the finished call are dead, the new call assigns its own as it goes  *)
CallAgain ==
    /\ pc = "done"
    /\ Len(history) + 1 < MaxCalls
    /\ history' = Append(history, [scanResult |-> scanResult, options |-> options,
                                   result |-> result])
    /\ \E in \in CallInputs : scanResult' = in.scanResult /\ options' = in.options
    /\ pc' = "call"
    /\ result' = Pending
    /\ UNCHANGED <<mode, filtered, threshold, sorted, idx, rows, render>>
    /\ UNCHANGED <<nativeVars, scanVars, moduleVars>>

NextCalls == Next \/ CallAgain

SpecCalls == InitCalls /\ [][NextCalls]_vars

---------------------------------------------------------------------------
(* TextRecognizerV2: the native LineCluster recognizer (Android            *)
(* TextRecognizerV2.process, iOS TextRecognizerV2.recognize).  The model   *)
(* follows the Android code, whose coordinates grow downwards; the iOS     *)
(* code is the same algorithm in Vision's upward coordinates.              *)
(*                                                                         *)
(* Numbers.  left, top, width, height of an element are integers (ten-     *)
(* thousandths of the image side).  Heights and median heights are kept    *)
(* doubled (1/2 unit), centre lines and their medians quadrupled (1/4      *)
(* unit), so that the halvings of the source are exact.  A quotient is a   *)
(* pair [n, d] standing for n / d, with d = 0 for what IEEE division       *)
(* gives then: NaN for 0/0, +Infinity for n/0 with n > 0.                  *)

Min(a, b) == IF a <= b THEN a ELSE b

(* OCRConfiguration *)
HeightCompatibilityPercent == 40
OverlapRatioPercent == 50
CenterlineDistancePercent == 70
StackedGrowthPercent == 120
SkewedGrowthPercent == 200
AdaptiveSpacingPercent == 100
SpaceWidthPercent == 30
MAX_SPACES == 10

(* the tolerance of the scoring, 0.01, as 1 / ScoreTolerance *)
ScoreTolerance == 100

TextElement(text, left, top, width, height, confidence) ==
    [text |-> text, left |-> left, top |-> top, width |-> width, height |-> height,
     confidence |-> confidence]

ElHeight(e) == 2 * e.height
ElMidY(e) == 4 * e.top + 2 * e.height

(* LineCluster(firstElement) *)
LineCluster(e) ==
    [elements |-> << e >>, heights |-> << ElHeight(e) >>, centerYs |-> << ElMidY(e) >>,
     uLeft |-> e.left, uTop |-> e.top, uRight |-> e.left + e.width,
     uBottom |-> e.top + e.height]

(* medianHeight() and medianCenterY(): both lists are never empty *)
Median(values) ==
    LET s == SortNumbers(values)
        mid == Len(s) \div 2
    IN IF Len(s) % 2 = 0 THEN (s[mid] + s[mid + 1]) \div 2 ELSE s[mid + 1]

medianHeight(c) == Median(c.heights)
medianCenterY(c) == Median(c.centerYs)

(* LineCluster.add *)
AddElement(c, e) ==
    [elements |-> Append(c.elements, e),
     heights |-> Append(c.heights, ElHeight(e)),
     centerYs |-> Append(c.centerYs, ElMidY(e)),
     uLeft |-> Min(c.uLeft, e.left),
     uTop |-> Min(c.uTop, e.top),
     uRight |-> Max(c.uRight, e.left + e.width),
     uBottom |-> Max(c.uBottom, e.top + e.height)]

(* IEEE comparisons of quotients; every comparison with NaN is false *)
IsNaN(q) == q.d = 0 /\ q.n = 0
IsInf(q) == q.d = 0 /\ q.n > 0

(* q < p / 100 *)
QuotientBelowPercent(q, p) ==
    /\ q.d # 0
    /\ 100 * q.n < p * q.d

(* q >= p / 100 *)
QuotientAtLeastPercent(q, p) ==
    \/ IsInf(q)
    \/ q.d # 0 /\ 100 * q.n >= p * q.d

(* q > r *)
QuotientGreater(q, r) ==
    IF IsNaN(q) \/ IsNaN(r) THEN FALSE
    ELSE IF IsInf(q) THEN ~IsInf(r)
    ELSE IF IsInf(r) THEN FALSE
    ELSE q.n * r.d > r.n * q.d

(* abs(q - r) < 0.01; Infinity - Infinity is NaN *)
QuotientNear(q, r) ==
    /\ q.d # 0
    /\ r.d # 0
    /\ ScoreTolerance * Abs(q.n * r.d - r.n * q.d) < q.d * r.d

(* the tests of one cluster against one element, inner loop of process *)
MinH(c, e) == Min(medianHeight(c), ElHeight(e))

MaxH(c, e) == Max(medianHeight(c), ElHeight(e))

(* 1. height similarity: `if ((minH / maxH) < THRESHOLD) continue` *)
HeightCompatible(c, e) ==
    ~QuotientBelowPercent([n |-> MinH(c, e), d |-> MaxH(c, e)], HeightCompatibilityPercent)

(* 2. overlap and centre line *)
IntHeight(c, e) == Max(0, Min(c.uBottom, e.top + e.height) - Max(c.uTop, e.top))

OverlapRatio(c, e) == [n |-> 2 * IntHeight(c, e), d |-> MinH(c, e)]

CenterDist(c, e) == Abs(medianCenterY(c) - ElMidY(e))

IsOverlapGood(c, e) == QuotientAtLeastPercent(OverlapRatio(c, e), OverlapRatioPercent)

IsCenterClose(c, e) == 100 * CenterDist(c, e) <= 2 * CenterlineDistancePercent * MaxH(c, e)

(* 3. growth constraint *)
IsStacked(c, e) == Max(0, Min(c.uRight, e.left + e.width) - Max(c.uLeft, e.left)) > 0

GrowthLimitSkewedOnly(c, e) == SkewedGrowthPercent

GrowthLimit(c, e) == IF IsStacked(c, e) THEN StackedGrowthPercent ELSE SkewedGrowthPercent

NewHeight(c, e) == Max(c.uBottom, e.top + e.height) - Min(c.uTop, e.top)

GrowthAllowed(c, e) == 200 * NewHeight(c, e) <= GrowthLimit(c, e) * MaxH(c, e)

Passes(c, e) ==
    /\ HeightCompatible(c, e)
    /\ IsOverlapGood(c, e) \/ IsCenterClose(c, e)
    /\ GrowthAllowed(c, e)

(* the scoring: bestClusterIndex (0 for null), bestOverlapRatio and        *)
(* bestCenterDist (-1 for Double.MAX_VALUE) after clusters i..             *)
NoBest == [index |-> 0, ratio |-> [n |-> 0, d |-> 1], dist |-> -1]

Closer(dist, bestDist) == bestDist = -1 \/ dist < bestDist

ScoreCluster(c, e, i, best) ==
    IF ~Passes(c, e) THEN best
    ELSE IF QuotientGreater(OverlapRatio(c, e), best.ratio)
    THEN [index |-> i, ratio |-> OverlapRatio(c, e), dist |-> CenterDist(c, e)]
    ELSE IF QuotientNear(OverlapRatio(c, e), best.ratio) /\ Closer(CenterDist(c, e), best.dist)
    THEN [index |-> i, ratio |-> best.ratio, dist |-> CenterDist(c, e)]
    ELSE best

RECURSIVE BestCluster(_, _, _, _)
BestCluster(cls, e, i, best) ==
    IF i > Len(cls) THEN best
    ELSE BestCluster(cls, e, i + 1, ScoreCluster(cls[i], e, i, best))

(* one iteration of `for (element in sortedElements)` *)
AssignCluster(cls, e) ==
    LET bestClusterIndex == BestCluster(cls, e, 1, NoBest).index
    IN IF bestClusterIndex # 0
       THEN [cls EXCEPT ![bestClusterIndex] = AddElement(@, e)]
       ELSE Append(cls, LineCluster(e))

(* allElements.sortedBy { it.top + it.height / 2.0 }: a stable sort *)
SortElements(els) ==
    Vals(StableSort([i \in 1..Len(els) |-> [key |-> ElMidY(els[i]), val |-> els[i]]]))

(* clusters.sortBy { it.midY }, midY = uTop + (uBottom - uTop) / 2 *)
SortClusters(cls) ==
    Vals(StableSort([i \in 1..Len(cls) |-> [key |-> cls[i].uTop + cls[i].uBottom,
                                            val |-> cls[i]]]))

(* step 3: the line of a cluster, with adaptive spacing *)
IntMax == 2147483647

(* Double.toInt() (Kotlin) saturates and maps NaN to 0; Int(_: Double)     *)
(* (Swift) stops the program on NaN and on an infinite value.  q >= 0.     *)
ToInt(q, plat) ==
    IF q.d = 0
    THEN IF plat = "ios"
         THEN [value |-> 0, trapped |-> TRUE]
         ELSE [value |-> IF IsNaN(q) THEN 0 ELSE IntMax, trapped |-> FALSE]
    ELSE [value |-> Min(q.n \div q.d, IntMax), trapped |-> FALSE]

UncappedSpaces(spaces) == spaces

CappedSpaces(spaces) == Min(spaces, MAX_SPACES)

(* the number of spaces put before an element that is gap away from the    *)
(* end of the one before it; medianH in 1/2 unit                           *)
SpaceCount(gap, medianH, plat) ==
    IF 200 * gap > AdaptiveSpacingPercent * medianH
    THEN LET spaces == ToInt([n |-> 200 * gap, d |-> SpaceWidthPercent * medianH], plat)
         IN [count |-> CappedSpaces(Max(1, spaces.value)), trapped |-> spaces.trapped]
    ELSE [count |-> 1, trapped |-> FALSE]

Spaces(n) == [i \in 1..n |-> " "]

SortByLeft(els) ==
    Vals(StableSort([i \in 1..Len(els) |-> [key |-> els[i].left, val |-> els[i]]]))

(* `for ((index, element) in lineElements.withIndex())`, from index on *)
RECURSIVE BuildLine(_, _, _, _, _, _)
BuildLine(lineElements, index, lastXEnd, acc, medianH, plat) ==
    IF index > Len(lineElements) THEN acc
    ELSE LET element == lineElements[index]
             sep == IF index > 1
                    THEN SpaceCount(element.left - lastXEnd, medianH, plat)
                    ELSE [count |-> 0, trapped |-> FALSE]
         IN IF sep.trapped
            THEN [acc EXCEPT !.trapped = TRUE]
            ELSE BuildLine(lineElements, index + 1, element.left + element.width,
                           [lineString |-> acc.lineString \o Spaces(sep.count) \o element.text,
                            seps |-> Append(acc.seps, sep.count),
                            trapped |-> FALSE],
                           medianH, plat)

LineOf(c, plat) ==
    BuildLine(SortByLeft(c.elements), 1, 0,
              [lineString |-> << >>, seps |-> << >>, trapped |-> FALSE],
              medianHeight(c), plat)

(* one block per cluster: the line, the union box, the average confidence *)
ClusterBlock(c, plat) ==
    [text |-> LineOf(c, plat).lineString,
     frame |-> [x |-> c.uLeft, y |-> c.uTop,
                width |-> c.uRight - c.uLeft, height |-> c.uBottom - c.uTop],
     confidence |-> [n |-> Sum([i \in 1..Len(c.elements) |-> c.elements[i].confidence]),
                     d |-> Len(c.elements)]]

RECURSIVE StructuredText(_, _)
StructuredText(cls, plat) ==
    IF cls = << >> THEN << >>
    ELSE LineOf(Head(cls), plat).lineString \o << "\n" >> \o StructuredText(Tail(cls), plat)

ResultMap(cls, plat) ==
    [text |-> StructuredText(cls, plat),
     blocks |-> [i \in 1..Len(cls) |-> ClusterBlock(cls[i], plat)]]

---------------------------------------------------------------------------
(* Inputs of the recognizer *)

MaxElements == 3

(* A, b, e: three tall glyphs side by side, b too small for A's cluster;   *)
(* x, y, w, z: words of one line at growing distances; an element with     *)
(* empty text; q, r: two elements of height 0 on one centre line; v: a     *)
(* small glyph that touches x's box from below, 0.4 of its height and with *)
(* its centre 0.7 of that height away.                                     *)
ElementPool ==
    { TextElement(<<"A">>, 0, 0, 100, 500, 9),
      TextElement(<<"b">>, 200, 160, 100, 196, 9),
      TextElement(<<"e">>, 400, 161, 100, 210, 9),
      TextElement(<<"x">>, 0, 600, 50, 20, 9),
      TextElement(<<"y">>, 60, 602, 50, 20, 8),
      TextElement(<<"w">>, 90, 600, 50, 20, 9),
      TextElement(<<"z">>, 300, 600, 50, 20, 9),
      TextElement(<< >>, 0, 900, 50, 20, 5),
      TextElement(<<"q">>, 0, 950, 50, 0, 9),
      TextElement(<<"r">>, 100, 950, 50, 0, 9),
      TextElement(<<"v">>, 200, 620, 50, 8, 9) }

(* reconstructReceipt is not being called *)
RecIdle ==
    /\ scanResult = [metadata |-> None, blocks |-> None, text |-> None]
    /\ options = [lineWidth |-> None, minConfidence |-> None, rowGroupingFactor |-> None]
    /\ InitLocals

InitNative ==
    /\ elements \in SeqsUpTo(ElementPool, MaxElements)
    /\ platform \in {"ios", "android"}
    /\ sortedElements = << >>
    /\ clusters = << >>
    /\ eidx = 0
    /\ v2pc = "idle"
    /\ v2lines = << >>
    /\ v2result = [text |-> << >>, blocks |-> << >>]
    /\ maxPageCountOption = << >>
    /\ pageCount = 0
    /\ images = 0
    /\ scanPc = "idle"
    /\ RecIdle
    /\ ModuleIdle

(* process is entered: the elements are sorted, no cluster exists *)
StartRecognize ==
    /\ v2pc = "idle"
    /\ sortedElements' = SortElements(elements)
    /\ clusters' = << >>
    /\ eidx' = 0
    /\ v2pc' = "cluster"
    /\ UNCHANGED <<elements, v2lines, v2result, recVars, scanVars, moduleVars>>

(* one iteration of the clustering loop *)
ClusterStep ==
    /\ v2pc = "cluster"
    /\ eidx < Len(sortedElements)
    /\ clusters' = AssignCluster(clusters, sortedElements[eidx + 1])
    /\ eidx' = eidx + 1
    /\ UNCHANGED <<elements, sortedElements, v2pc, v2lines, v2result, recVars, scanVars, moduleVars>>

(* the clusters are sorted and rendered; a failed conversion ends the run *)
Reconstruct ==
    /\ v2pc = "cluster"
    /\ eidx = Len(sortedElements)
    /\ clusters' = SortClusters(clusters)
    /\ LET cls == SortClusters(clusters)
       IN IF \E i \in 1..Len(cls) : LineOf(cls[i], platform).trapped
          THEN /\ v2pc' = "crash"
               /\ UNCHANGED <<v2lines, v2result>>
          ELSE /\ v2pc' = "done"
               /\ v2lines' = [i \in 1..Len(cls) |-> LineOf(cls[i], platform)]
               /\ v2result' = ResultMap(cls, platform)
    /\ UNCHANGED <<elements, sortedElements, eidx, recVars, scanVars, moduleVars>>

NextNative == StartRecognize \/ ClusterStep \/ Reconstruct

SpecNative == InitNative /\ [][NextNative]_vars

---------------------------------------------------------------------------
(* scanDocuments: how many page results a scan returns.  iOS:              *)
(* DocumentScannerManager with ScanOptions (Options.swift); Android:       *)
(* DocumentScannerModule with ScanOptions.from (Options.kt).               *)

MaxPages == 120

(* what the user may have scanned when the system scanner closes *)
PageCounts == {1, 2, 3, 100, 101, MaxPages}

MaxPageCountOptions == {None} \cup {Some(n) : n \in {-1, 0, 1, 2, 100, 101, 150}}

(* iOS, ScanOptions.init(from:fallbackPageCount:): clamp to [0, 100] *)
MaxPageCountLimit == 100

ClampedMaxPageCount(option, fallbackPageCount) ==
    Max(0, Min(MaxPageCountLimit, OrElse(option, fallbackPageCount)))

(* iOS, processScan: let pageLimit = min(scan.pageCount, opts.maxPageCount) *)
PageLimit(option, scanPageCount) ==
    Min(scanPageCount, ClampedMaxPageCount(option, scanPageCount))

(* Android, ScanOptions.from: the option as passed, 0 when absent *)
AndroidMaxPageCount(option) == OrElse(option, 0)

(* Android, scanDocuments: setPageLimit only for a positive maxPageCount;  *)
(* the system scanner then returns no more pages than that                 *)
ScannerAllows(option, n) ==
    AndroidMaxPageCount(option) > 0 => n <= AndroidMaxPageCount(option)

(* the number of pages the processing loop goes through *)
PagesToProcess ==
    IF platform = "ios" THEN PageLimit(maxPageCountOption, pageCount) ELSE pageCount

InitScan ==
    /\ platform \in {"ios", "android"}
    /\ maxPageCountOption \in MaxPageCountOptions
    /\ pageCount = 0
    /\ images = 0
    /\ scanPc = "idle"
    /\ NativeIdle
    /\ RecIdle
    /\ ModuleIdle

(* scanDocuments: the options are kept and the system scanner is shown *)
ScanDocuments ==
    /\ scanPc = "idle"
    /\ scanPc' = "scanning"
    /\ UNCHANGED <<platform, maxPageCountOption, pageCount, images, recVars, nativeVars, moduleVars>>

(* the user finishes with n pages: didFinishWith / RESULT_OK *)
DidFinish ==
    /\ scanPc = "scanning"
    /\ \E n \in PageCounts :
          /\ platform = "android" => ScannerAllows(maxPageCountOption, n)
          /\ pageCount' = n
    /\ scanPc' = "processing"
    /\ UNCHANGED <<platform, maxPageCountOption, images, recVars, nativeVars, moduleVars>>

(* the user cancels: documentCameraViewControllerDidCancel / RESULT_CANCELED *)
DidCancel ==
    /\ scanPc = "scanning"
    /\ scanPc' = "rejected"
    /\ UNCHANGED <<platform, maxPageCountOption, pageCount, images, recVars, nativeVars, moduleVars>>

(* one iteration of the loop over the pages *)
CollectPage ==
    /\ scanPc = "processing"
    /\ images < PagesToProcess
    /\ images' = images + 1
    /\ UNCHANGED <<platform, maxPageCountOption, pageCount, scanPc, recVars, nativeVars, moduleVars>>

(* the promise is resolved with one result per collected page *)
ResolveScan ==
    /\ scanPc = "processing"
    /\ images = PagesToProcess
    /\ scanPc' = "resolved"
    /\ UNCHANGED <<platform, maxPageCountOption, pageCount, images, recVars, nativeVars, moduleVars>>

NextScan == ScanDocuments \/ DidFinish \/ DidCancel \/ CollectPage \/ ResolveScan

SpecScan == InitScan /\ [][NextScan]_vars

---------------------------------------------------------------------------
(* Properties of reconstructReceipt *)

Done == pc = "done"
BlockPath == pc # "call" /\ mode # "none"
Metadata == scanResult.metadata
OcrEngine == IF IsSome(Metadata) THEN Get(Metadata).ocrEngine ELSE "missing"
V2NativeEngine ==
    /\ Metadata # None
    /\ Get(Metadata).textVersion = 2
    /\ OcrEngine # "RecognizeDocumentsRequest"
GivenText == IF scanResult.text = None THEN << >> ELSE scanResult.text[1]
GivenBlocks == IF scanResult.blocks = None THEN << >> ELSE scanResult.blocks[1]

(* C1: on the V2 native-text path (textVersion 2, engine other than         *)
(* RecognizeDocumentsRequest) a non-empty text is returned with only its    *)
(* trailing whitespace removed: the result is a prefix of text, what was    *)
(* cut is whitespace only, and the result does not end in whitespace, for   *)
(* every blocks array and options; an absent or empty text gives the block  *)
(* reconstruction of blocks in 'clustered' mode.                            *)
C1_NativeTextPath ==
    (Done /\ V2NativeEngine) =>
        IF GivenText # << >>
        THEN /\ result.kind = "return"
             /\ \E n \in 0..Len(GivenText) :
                    /\ result.str = SubSeq(GivenText, 1, n)
                    /\ \A i \in (n + 1)..Len(GivenText) : GivenText[i] \in WhiteSpace
                    /\ n > 0 => GivenText[n] \notin WhiteSpace
        ELSE result = reconstructFromBlocks(GivenBlocks, "clustered", options)

C1_Witness ==
    /\ Done
    /\ V2NativeEngine
    /\ GivenText = <<" ", "a", "\n">>
    /\ result = Return(<<" ", "a">>)
    /\ GivenBlocks # << >>
    /\ options.minConfidence # None

(* C2: mode selection is total: whatever the metadata (absent, any engine   *)
(* string), the block path runs in 'paragraphs' mode exactly when ocrEngine *)
(* is 'RecognizeDocumentsRequest' and in 'clustered' mode otherwise, the    *)
(* call ends with the reconstruction in that mode, and no error comes from  *)
(* the metadata: the only throw is the buffer allocation with a negative    *)
(* lineWidth.                                                               *)
C2_ModeSelectionTotal ==
    /\ pc # "call" =>
          /\ mode \in {"none", "paragraphs", "clustered"}
          /\ mode = "none" <=> (V2NativeEngine /\ GivenText # << >>)
          /\ mode = "paragraphs" <=>
                 (OcrEngine = "RecognizeDocumentsRequest" /\ ~(mode = "none"))
    /\ (Done /\ mode # "none") =>
          /\ result = reconstructFromBlocks(GivenBlocks,
                          IF OcrEngine = "RecognizeDocumentsRequest"
                          THEN "paragraphs" ELSE "clustered", options)
    /\ result.kind = "throw" => LineWidth(options) < 0

C2_Witness ==
    /\ Done
    /\ OcrEngine = "Tesseract"
    /\ Get(Metadata).textVersion = 1
    /\ mode = "clustered"
    /\ result.kind = "return"
    /\ result.str # << >>

(* C3: a fragment survives the confidence filter iff minConfidence is       *)
(* absent, or it has no confidence, or its confidence is >= minConfidence;  *)
(* the survivors keep their input order, and the output is the one obtained *)
(* from the survivors alone with no filter (the dropped fragments           *)
(* contribute nothing).                                                     *)
Survives(b) ==
    \/ options.minConfidence = None
    \/ b.confidence = None
    \/ b.confidence[1] >= options.minConfidence[1]

SurvivorIndices == {i \in 1..Len(GivenBlocks) : Survives(GivenBlocks[i])}

NthSurvivor(j) ==
    CHOOSE i \in SurvivorIndices : Cardinality({k \in SurvivorIndices : k <= i}) = j

Survivors == [j \in 1..Cardinality(SurvivorIndices) |-> GivenBlocks[NthSurvivor(j)]]

C3_ConfidenceFilter ==
    BlockPath =>
        /\ filtered = Survivors
        /\ Done => result = reconstructFromBlocks(Survivors, mode,
                                [options EXCEPT !.minConfidence = None])

C3_Witness ==
    /\ Done
    /\ BlockPath
    /\ options.minConfidence # None
    /\ Len(GivenBlocks) = 3
    /\ Len(filtered) = 2
    /\ ~Survives(GivenBlocks[1])
    /\ GivenBlocks[2].confidence = options.minConfidence
    /\ GivenBlocks[3].confidence = None
    /\ result.kind = "return"
    /\ result.str # << >>

(* C9: block reconstruction returns the empty string, and does not throw,   *)
(* when the fragment list is empty or the filter removes every fragment,    *)
(* in every mode and for every options value (a negative lineWidth too).    *)
C9_EmptyResult ==
    (Done /\ BlockPath /\ SurvivorIndices = {}) => result = Return(<< >>)

C9_Witness ==
    /\ Done
    /\ BlockPath
    /\ GivenBlocks # << >>
    /\ SurvivorIndices = {}
    /\ LineWidth(options) < 0
    /\ result = Return(<< >>)

(* What the rendering loop did, read from the state *)
Rendered == Done /\ BlockPath /\ result.kind = "return" /\ filtered # << >>
RowCount == Len(render)
FragCount(r) == Len(render[r].rowBlocks)
Frag(r, k) == render[r].rowBlocks[k]
Col(r, k) == render[r].cols[k]
EndCol(r, k) == Col(r, k) + Len(Frag(r, k).text)
Line(r) == render[r].line
Gap(r, k) == Col(r, k) - EndCol(r, k - 1)
Width == IF options.lineWidth = None THEN DefaultLineWidth ELSE options.lineWidth[1]

(* c is the integer nearest to x * lineWidth, a half going up; x in hundredths *)
IsRounded(c, x) == 100 * (2 * c - 1) <= 2 * x * Width /\ 2 * x * Width < 100 * (2 * c + 1)

(* C5: in a rendered row, of two fragments with x1 < x2 the first starts at *)
(* a strictly smaller column and ends before the second starts, and every   *)
(* character of a fragment that the line still holds stands at its own      *)
(* column (no later fragment has overwritten it).                           *)
C5_ColumnOrdering ==
    Rendered =>
        /\ result.str = Join([r \in 1..RowCount |-> Line(r)], "\n")
        /\ \A r \in 1..RowCount :
              /\ \A i, j \in 1..FragCount(r) :
                     Frag(r, i).frame.x < Frag(r, j).frame.x =>
                         /\ Col(r, i) < Col(r, j)
                         /\ EndCol(r, i) <= Col(r, j)
              /\ \A i \in 1..FragCount(r) :
                     \A n \in 1..Len(Frag(r, i).text) :
                         Col(r, i) + n <= Len(Line(r)) =>
                             Line(r)[Col(r, i) + n] = Frag(r, i).text[n]

C5_Witness ==
    /\ Rendered
    /\ \E r \in 1..RowCount :
           \E i, j \in 1..FragCount(r) :
               /\ Frag(r, i).frame.x < Frag(r, j).frame.x
               /\ ~IsRounded(Col(r, j), Frag(r, j).frame.x)
               /\ Col(r, j) < Len(Line(r))

(* C6: taking a row's fragments in ascending x, the first starts at         *)
(* round(x * lineWidth) and fragment k at the larger of round(x_k *         *)
(* lineWidth) and c_(k-1) + length(text_(k-1)) + 1; x = 0.75 at lineWidth   *)
(* 40 is column 30 when the cursor is not beyond it; between two            *)
(* consecutive fragments there is at least one column, and it holds a space.*)
C6_ColumnPlacement ==
    Rendered =>
        \A r \in 1..RowCount :
            \A k \in 1..FragCount(r) :
                /\ k > 1 => Frag(r, k - 1).frame.x <= Frag(r, k).frame.x
                /\ \E c \in 0..Width :
                       /\ IsRounded(c, Frag(r, k).frame.x)
                       /\ Col(r, k) = IF k = 1 \/ c >= EndCol(r, k - 1) + 1
                                      THEN c ELSE EndCol(r, k - 1) + 1
                /\ (Width = 40 /\ Frag(r, k).frame.x = 75
                       /\ (k = 1 \/ EndCol(r, k - 1) < 30)) => Col(r, k) = 30
                /\ k > 1 =>
                       /\ Gap(r, k) >= 1
                       /\ EndCol(r, k - 1) < Len(Line(r)) =>
                              Line(r)[EndCol(r, k - 1) + 1] = " "

C6_Witness ==
    /\ Rendered
    /\ Width = 40
    /\ \E r \in 1..RowCount :
           /\ FragCount(r) = 3
           /\ Frag(r, 3).frame.x = 75
           /\ Col(r, 3) = 30
           /\ Col(r, 2) > Col(r, 1)
           /\ ~IsRounded(Col(r, 2), Frag(r, 2).frame.x)

(* C7, as claimed: the gap between two adjacent fragments of a row never    *)
(* shows more than 10 spaces.                                               *)
C7_SpaceCap ==
    Rendered =>
        \A r \in 1..RowCount :
            \A k \in 2..FragCount(r) :
                Col(r, k) < Len(Line(r)) => Gap(r, k) <= MAX_SPACES

(* C7, amended: the character grid has no cap of 10: the gap between two    *)
(* adjacent fragments of a row is at least one column, and when the later   *)
(* fragment shows in the line the gap is a run of spaces of at most         *)
(* lineWidth - 1 columns.                                                   *)
C7_GapBound ==
    Rendered =>
        \A r \in 1..RowCount :
            \A k \in 2..FragCount(r) :
                /\ Gap(r, k) >= 1
                /\ Col(r, k) < Len(Line(r)) =>
                       /\ Gap(r, k) <= Width - 1
                       /\ \A p \in EndCol(r, k - 1)..(Col(r, k) - 1) : Line(r)[p + 1] = " "

C7_Witness ==
    /\ Rendered
    /\ \E r \in 1..RowCount :
           \E k \in 2..FragCount(r) :
               /\ Col(r, k) < Len(Line(r))
               /\ Gap(r, k) > MAX_SPACES
               /\ Frag(r, k - 1).text # << >>

(* C4, as claimed: the rendered rows are in non-decreasing medianMidY, and  *)
(* every permutation of the fragment list gives the same rendered rows.     *)
PermutationsOf(s) ==
    {[i \in 1..Len(s) |-> s[f[i]]] : f \in Permutations(1..Len(s))}

C4_RowOrderAnyPermutation ==
    (Done /\ BlockPath /\ result.kind = "return") =>
        /\ \A r \in 1..(RowCount - 1) : render[r].medianMidY <= render[r + 1].medianMidY
        /\ \A p \in PermutationsOf(GivenBlocks) :
               reconstructFromBlocks(p, mode, options) = result

(* C8, as claimed: reconstructing from the list sorted ascending by         *)
(* (frame.y, frame.x) gives the same output as reconstructing from the list.*)
PreSortedByYX(s) ==
    Vals(StableSort([i \in 1..Len(s) |->
             [key |-> 101 * s[i].frame.y + s[i].frame.x, val |-> s[i]]]))

C8_PreSortedSameOutput ==
    (Done /\ BlockPath) =>
        reconstructFromBlocks(PreSortedByYX(GivenBlocks), mode, options) = result

(* C10, as claimed: on the block path a lineWidth <= 0, zero as well as     *)
(* negative, ends in an error and never in a returned string (stated here   *)
(* for the calls that have a fragment left to render).                      *)
C10_LineWidthRejected ==
    (Done /\ BlockPath /\ filtered # << >> /\ Width <= 0) => result.kind = "throw"

---------------------------------------------------------------------------
(* C11: a call of reconstructReceipt changes nothing the caller passed in:  *)
(* the blocks array keeps its elements and their order, every block, the    *)
(* scanResult object and the options object stay as they were, on the       *)
(* native-text path and on the block path alike.                            *)
C11_InputsUnchanged == [][scanResult' = scanResult /\ options' = options]_vars

(* a finished block-path call whose filtered array is the caller's own and  *)
(* whose blocks were not in midY order, so that step 3 had to reorder       *)
C11_Witness ==
    /\ Rendered
    /\ options.minConfidence = None
    /\ GivenBlocks # SortByMidY(GivenBlocks)
    /\ Len(rows) >= 2

---------------------------------------------------------------------------
(* C12: reconstructReceipt is a function of its arguments: two calls with  *)
(* equal (metadata, blocks, text, options) give equal results whatever     *)
(* calls came before or between them; nothing a call leaves behind reaches *)
(* a later call.                                                           *)
AllCalls ==
    IF Done
    THEN Append(history, [scanResult |-> scanResult, options |-> options, result |-> result])
    ELSE history

(* C12: any two calls with equal arguments have equal results *)
C12_CallIndependence ==
    \A i, j \in 1..Len(AllCalls) :
        (AllCalls[i].scanResult = AllCalls[j].scanResult
         /\ AllCalls[i].options = AllCalls[j].options)
        => AllCalls[i].result = AllCalls[j].result

(* a block-path call repeated after a different call in between *)
C12_Witness ==
    /\ Done
    /\ Len(history) = 2
    /\ history[1].scanResult = scanResult
    /\ history[2].scanResult # scanResult
    /\ Len(rows) = 2
    /\ result.kind = "return" /\ result.str # << >>
    /\ history[2].result # result

---------------------------------------------------------------------------
(* C13: on a V2 scan result of an engine other than                        *)
(* RecognizeDocumentsRequest, options.minConfidence has no effect: the     *)
(* call returns what it returns for every other minConfidence, whether or  *)
(* not text is present.                                                    *)
MinConfidences == {None, Some(5)}

(* C13: the result is the same for every minConfidence *)
C13_MinConfidenceIgnoredOnV2 ==
    (Done /\ V2NativeEngine)
    => \A mc \in MinConfidences :
           result = reconstructReceipt(scanResult, [options EXCEPT !.minConfidence = mc])

---------------------------------------------------------------------------
(* C14: with options.rowGroupingFactor omitted, the factor multiplied into *)
(* the threshold is 0.7 in 'paragraphs' mode and 0.4 in 'clustered' mode.  *)
Grouping == BlockPath /\ filtered # << >>

(* the defaults as the README table of the options gives them, in tenths *)
DocumentedFactor(m) == IF m = "paragraphs" THEN 7 ELSE 4

(* C14: the threshold is the documented default factor times the typical   *)
(* height                                                                  *)
C14_DefaultFactor ==
    (Grouping /\ options.rowGroupingFactor = None)
    => threshold = DocumentedFactor(mode)
                     * (IF TypicalHeight(filtered) > 0 THEN TypicalHeight(filtered) ELSE 4)

---------------------------------------------------------------------------
(* C19: the fragments are taken in ascending midY; each joins the row      *)
(* whose medianMidY is nearest at that moment if and only if that distance *)
(* is strictly less than threshold, and otherwise (a distance equal to     *)
(* threshold included) starts a new row of its own.  Two fragments of      *)
(* equal height that are the whole input share a row iff their midY        *)
(* differ by strictly less than threshold.                                 *)
RowDist(i, b) == Abs(rows[i].medianMidY - MidY(b))

WithinThreshold(b) == {i \in 1..Len(rows) : 5 * RowDist(i, b) < threshold}

Nearest(b) == {i \in 1..Len(rows) : \A j \in 1..Len(rows) : RowDist(i, b) <= RowDist(j, b)}

GreedyStep ==
    (pc = "group" /\ idx' = idx + 1)
    => LET b == sorted[idx + 1]
       IN /\ idx > 0 => MidY(sorted[idx]) <= MidY(b)
          /\ IF (Nearest(b) \cap WithinThreshold(b)) = {}
             THEN /\ Len(rows') = Len(rows) + 1
                  /\ \A j \in 1..Len(rows) : rows'[j] = rows[j]
                  /\ rows'[Len(rows) + 1].blocks = << b >>
                  /\ rows'[Len(rows) + 1].medianMidY = MidY(b)
             ELSE /\ Len(rows') = Len(rows)
                  /\ \E i \in Nearest(b) \cap WithinThreshold(b) :
                        /\ rows'[i].blocks = Append(rows[i].blocks, b)
                        /\ \A j \in 1..Len(rows) : j # i => rows'[j] = rows[j]

TwoOfEqualHeight ==
    /\ Grouping /\ Done
    /\ Len(filtered) = 2
    /\ filtered[1].frame.height = filtered[2].frame.height

TwoFragments ==
    TwoOfEqualHeight
    => (Len(rows) = 1 <=> 5 * Abs(MidY(filtered[1]) - MidY(filtered[2])) < threshold)

(* C19: every grouping step is greedy and nearest-row, and two fragments   *)
(* of equal height share a row iff they are less than threshold apart      *)
C19_GreedyNearestRow == [][GreedyStep]_vars /\ []TwoFragments

(* a fragment exactly threshold away from the only row starts a new row:   *)
(* a (midY 0.125) and b (midY 0.145), height 0.05, factor 0.4              *)
C19_Witness ==
    /\ TwoOfEqualHeight
    /\ threshold > 0
    /\ 5 * Abs(MidY(filtered[1]) - MidY(filtered[2])) = threshold
    /\ Len(rows) = 2

---------------------------------------------------------------------------
(* C20: threshold = rowGroupingFactor * max(m, 0.02), m the median height  *)
(* of the fragments that passed the filter (mean of the two middle values  *)
(* for an even count); a median strictly between 0 and 0.02 is raised to   *)
(* 0.02; the threshold is positive whenever rowGroupingFactor is.          *)
Heights == [i \in 1..Len(filtered) |-> 2 * filtered[i].frame.height]

(* the k-th smallest of Heights, by counting *)
KthSmallest(k) ==
    CHOOSE v \in {Heights[i] : i \in 1..Len(Heights)} :
        /\ Cardinality({i \in 1..Len(Heights) : Heights[i] < v}) < k
        /\ k <= Cardinality({i \in 1..Len(Heights) : Heights[i] <= v})

MedianHeight ==
    IF Len(Heights) % 2 = 0
    THEN (KthSmallest(Len(Heights) \div 2) + KthSmallest(Len(Heights) \div 2 + 1)) \div 2
    ELSE KthSmallest((Len(Heights) + 1) \div 2)

Factor == RowGroupingFactor(options, mode)

(* 0.02 in the unit of the heights (1/200) *)
FallbackHeight == 4

(* C20, as stated: the median is raised to 0.02 *)
C20_ThresholdMax == Grouping => threshold = Factor * Max(MedianHeight, FallbackHeight)

(* C20, as the code computes it: 0.02 stands in only for a median that is  *)
(* not positive; a positive median is used as it is, however small         *)
C20_ThresholdFallback ==
    Grouping
    => /\ threshold = Factor * (IF MedianHeight > 0 THEN MedianHeight ELSE FallbackHeight)
       /\ Factor > 0 => threshold > 0

(* two fragments of heights 0.01 and 0.02: the median 0.015 is used *)
C20_Witness ==
    /\ Grouping /\ Done
    /\ Len(filtered) = 2
    /\ 0 < MedianHeight /\ MedianHeight < FallbackHeight
    /\ Heights[1] # Heights[2]
    /\ Factor > 0
    /\ threshold = Factor * MedianHeight

---------------------------------------------------------------------------
(* Properties of the native recognizer *)

Recognized == v2pc = "done"

(* String.prototype.split on "\n": the pieces between the separators, one  *)
(* piece (the whole string, possibly empty) when there is no separator     *)
RECURSIVE SplitLines(_, _)
SplitLines(str, piece) ==
    IF str = << >> THEN << piece >>
    ELSE IF Head(str) = "\n" THEN << piece >> \o SplitLines(Tail(str), << >>)
    ELSE SplitLines(Tail(str), Append(piece, Head(str)))

TextLines == SplitLines(TrimEnd(v2result.text), << >>)

(* C15: for every input, zero elements and elements with empty text        *)
(* included, the result has exactly one block per cluster, in the order of *)
(* the lines of text; blocks[i].text is line i of text, and                *)
(* text.trimEnd().split('\n') has exactly blocks.length entries.           *)
C15_BlockContract ==
    Recognized
    => /\ Len(v2result.blocks) = Len(clusters)
       /\ Len(TextLines) = Len(v2result.blocks)
       /\ \A i \in 1..Len(v2result.blocks) : v2result.blocks[i].text = TextLines[i]

---------------------------------------------------------------------------
(* C16: when several clusters pass the three tests for an element, the     *)
(* element joins the one with the highest vertical overlap ratio, and,     *)
(* only among clusters of equal overlap ratio, the one with the smallest   *)
(* centre-line distance; the choice does not depend on the order in which  *)
(* the clusters are scanned.                                               *)
NextElement == sortedElements[eidx + 1]

Candidates == {k \in 1..Len(clusters) : Passes(clusters[k], NextElement)}

Ratio(k) == OverlapRatio(clusters[k], NextElement)

Dist(k) == CenterDist(clusters[k], NextElement)

HighestRatio == {k \in Candidates : \A j \in Candidates : ~QuotientGreater(Ratio(j), Ratio(k))}

BestCandidates == {k \in HighestRatio : \A j \in HighestRatio : Dist(k) <= Dist(j)}

(* the cluster the scoring picks out of cls, as a one-element set *)
Chosen(cls, e) ==
    LET i == BestCluster(cls, e, 1, NoBest).index
    IN IF i = 0 THEN {} ELSE {cls[i]}

ScoringStep ==
    (v2pc = "cluster" /\ eidx' = eidx + 1)
    => /\ IF Candidates = {}
          THEN clusters' = Append(clusters, LineCluster(NextElement))
          ELSE \E k \in BestCandidates :
                  clusters' = [clusters EXCEPT ![k] = AddElement(@, NextElement)]
       /\ \A p \in PermutationsOf(clusters) :
              Chosen(p, NextElement) = Chosen(clusters, NextElement)

(* C16: every clustering step joins a best candidate, whatever the order   *)
(* of the clusters                                                         *)
C16_BestClusterScoring == [][ScoringStep]_vars

---------------------------------------------------------------------------
(* C17: between two adjacent elements of a cluster line the recognizer     *)
(* puts at most 10 spaces, whatever the gap and the median height (zero    *)
(* included), and computing the number never fails.                        *)
LineElements(i) == SortByLeft(clusters[i].elements)

GapBefore(i, k) == LineElements(i)[k].left - (LineElements(i)[k - 1].left + LineElements(i)[k - 1].width)

TextLength(i) == Sum([k \in 1..Len(LineElements(i)) |-> Len(LineElements(i)[k].text)])

---------------------------------------------------------------------------
(* C18: maxPageCount = 0 means unlimited: such a scan returns one result   *)
(* for every scanned page; with 1 <= maxPageCount <= 100 it returns        *)
(* min(pageCount, maxPageCount) results; a value above 100 counts as 100.  *)
Resolved == scanPc = "resolved"

(* C18: the number of results for a maxPageCount of 0, of 1..100 and above *)
C18_MaxPageCount ==
    (Resolved /\ IsSome(maxPageCountOption) /\ Get(maxPageCountOption) >= 0)
    => images = IF Get(maxPageCountOption) = 0
                THEN pageCount
                ELSE Min(pageCount, Min(Get(maxPageCountOption), MaxPageCountLimit))

---------------------------------------------------------------------------
(* the k-th smallest of a sequence of numbers, by counting, and the median *)
(* built on it (mean of the two middle values for an even count)           *)
KthOf(values, k) ==
    CHOOSE v \in {values[i] : i \in 1..Len(values)} :
        /\ Cardinality({i \in 1..Len(values) : values[i] < v}) < k
        /\ k <= Cardinality({i \in 1..Len(values) : values[i] <= v})

MedianOf(values) ==
    IF Len(values) % 2 = 0
    THEN (KthOf(values, Len(values) \div 2) + KthOf(values, Len(values) \div 2 + 1)) \div 2
    ELSE KthOf(values, (Len(values) + 1) \div 2)

(* C21: after every step of the grouping each row has as many recorded     *)
(* midY values as members, the recorded values are its members' midYs, and *)
(* its medianMidY is the median (not the mean) of the recorded values.     *)
C21_RowMedian ==
    Grouping
    => \A r \in 1..Len(rows) :
          /\ Len(rows[r].midYs) = Len(rows[r].blocks)
          /\ \A k \in 1..Len(rows[r].blocks) : rows[r].midYs[k] = MidY(rows[r].blocks[k])
          /\ rows[r].medianMidY = MedianOf(rows[r].midYs)

(* a row of three whose median differs from its mean: a, b, c at factor 0.7 *)
C21_Witness ==
    /\ Grouping
    /\ \E r \in 1..Len(rows) :
          /\ Len(rows[r].blocks) = 3
          /\ 3 * rows[r].medianMidY # Sum(rows[r].midYs)
          /\ rows[r].medianMidY = MedianOf(rows[r].midYs)

---------------------------------------------------------------------------
(* C22: a fragment at equal distance, below threshold, from two existing   *)
(* rows joins the one with the lowest row index, the row created first and *)
(* the topmost of the two (smallest medianMidY).                           *)
Tied(b) == Nearest(b) \cap WithinThreshold(b)

LowestTied(b) == CHOOSE i \in Tied(b) : \A j \in Tied(b) : i <= j

TieStep ==
    (pc = "group" /\ idx' = idx + 1 /\ Cardinality(Tied(sorted[idx + 1])) >= 2)
    => LET b == sorted[idx + 1]
       IN /\ Len(rows') = Len(rows)
          /\ rows'[LowestTied(b)].blocks = Append(rows[LowestTied(b)].blocks, b)
          /\ \A j \in 1..Len(rows) : j # LowestTied(b) => rows'[j] = rows[j]
          /\ \A j \in Tied(b) : rows[LowestTied(b)].medianMidY <= rows[j].medianMidY

C22_TieBreak == [][TieStep]_vars

(* the fragment a (midY 0.125) between the rows of f (0.105) and b (0.145) *)
C22_Witness ==
    /\ pc = "group" /\ idx = 1
    /\ Len(rows) >= 2
    /\ \E i \in 1..Len(rows) - 1 :
          /\ Len(rows[i].blocks) = 2
          /\ Len(rows[i + 1].blocks) = 1
          /\ rows[i].blocks[2] = sorted[1]
          /\ Abs(rows[i].midYs[1] - MidY(sorted[1]))
               = Abs(rows[i + 1].medianMidY - MidY(sorted[1]))
          /\ rows[i].midYs[1] < rows[i + 1].medianMidY

---------------------------------------------------------------------------
(* C23: with a positive threshold the rows are, after each fragment, in    *)
(* strictly ascending medianMidY in creation order; a fragment is only     *)
(* ever appended to the most recently created row; the final sort of the   *)
(* rows by medianMidY leaves their order as it is.                         *)
RowsAscending == \A r \in 1..Len(rows) - 1 : rows[r].medianMidY < rows[r + 1].medianMidY

OnlyLastRowGrows ==
    (pc = "group" /\ idx' = idx + 1 /\ threshold > 0 /\ Len(rows') = Len(rows))
    => /\ \A j \in 1..Len(rows) - 1 : rows'[j] = rows[j]
       /\ rows'[Len(rows)].blocks = Append(rows[Len(rows)].blocks, sorted[idx + 1])

FinalSortKeepsOrder == (pc = "group" /\ pc' = "done" /\ threshold > 0) => rows' = rows

C23_RowsStaySorted ==
    /\ []((Grouping /\ threshold > 0) => RowsAscending)
    /\ [][OnlyLastRowGrows /\ FinalSortKeepsOrder]_vars

(* a finished grouping of several rows, one of them with several members *)
C23_Witness ==
    /\ Grouping /\ Done
    /\ threshold > 0
    /\ Len(rows) >= 2
    /\ Len(rows[Len(rows)].blocks) >= 2
    /\ GivenBlocks # SortByMidY(GivenBlocks)

---------------------------------------------------------------------------
GroupingEnded == BlockPath /\ (Done \/ (pc = "group" /\ idx = Len(sorted)))

Occurrences(blocks, b) == Cardinality({i \in 1..Len(blocks) : blocks[i] = b})

RowSizes == [r \in 1..Len(rows) |-> Len(rows[r].blocks)]

(* how often b is among the caller's blocks that pass the filter *)
SurvivingOccurrences(b) == Cardinality({i \in SurvivorIndices : GivenBlocks[i] = b})

(* C24: when grouping ends every fragment that passed the confidence       *)
(* filter is a member of exactly one row (counted with its repetitions),   *)
(* no row is empty, and the row sizes sum to the number of filtered        *)
(* fragments.                                                              *)
C24_RowsPartition ==
    GroupingEnded =>
        /\ \A b \in BlockPool :
               Sum([r \in 1..Len(rows) |-> Occurrences(rows[r].blocks, b)])
                   = SurvivingOccurrences(b)
        /\ \A r \in 1..Len(rows) : rows[r].blocks # << >>
        /\ Sum(RowSizes) = Cardinality(SurvivorIndices)

(* a fragment was filtered out and the others went to a row of two *)
C24_Witness ==
    /\ GroupingEnded /\ Done
    /\ SurvivorIndices # {} /\ Cardinality(SurvivorIndices) < Len(GivenBlocks)
    /\ \E r \in 1..Len(rows) : Len(rows[r].blocks) >= 2

---------------------------------------------------------------------------
(* the zero-based column of character i of fragment k of row r *)
CharCol(r, k, i) == Col(r, k) + i - 1

Covered(r, p) ==
    \E k \in 1..FragCount(r) : \E i \in 1..Len(Frag(r, k).text) : CharCol(r, k, i) = p

(* C25: for lineWidth >= 1 every line has at most lineWidth characters and *)
(* no trailing whitespace; a character whose column is >= lineWidth is     *)
(* dropped; a character at a column < lineWidth stands at exactly that     *)
(* column unless the trim removed it, and the trim removes whitespace only *)
C25_LineWidthBound ==
    (Rendered /\ Width >= 1) =>
        \A r \in 1..RowCount :
            /\ Len(Line(r)) <= Width
            /\ Line(r) # << >> => Line(r)[Len(Line(r))] \notin WhiteSpace
            /\ \A k \in 1..FragCount(r) : \A i \in 1..Len(Frag(r, k).text) :
                   LET p == CharCol(r, k, i)
                       ch == Frag(r, k).text[i]
                   IN /\ p >= Width => Len(Line(r)) <= p
                      /\ (p < Width /\ p < Len(Line(r))) => Line(r)[p + 1] = ch
                      /\ (p < Width /\ ch \notin WhiteSpace) => p < Len(Line(r))
            /\ \A p \in 0..Len(Line(r)) - 1 : ~Covered(r, p) => Line(r)[p + 1] = " "

(* '$3.99' at x = 0.75 in a line of 8 columns: '$3' stays, '.99' is dropped *)
C25_Witness ==
    /\ Rendered /\ Width = 8
    /\ \E r \in 1..RowCount :
           /\ FragCount(r) >= 2
           /\ Line(r) # << >>
           /\ \E k \in 1..FragCount(r) :
                  /\ Col(r, k) < Width
                  /\ EndCol(r, k) > Width

---------------------------------------------------------------------------
Output == result.str

(* the one-based position in the output just before the line of row r *)
LineStart(r) == Sum([j \in 1..r - 1 |-> Len(Line(j)) + 1])

NewLines(str) == Cardinality({p \in 1..Len(str) : str[p] = "\n"})

(* C26: the output of a call that renders a non-empty filtered input is    *)
(* one line per row, an empty line for a row that keeps no character, the  *)
(* lines separated by single newlines: rows - 1 newlines in all and none   *)
(* after the last row.                                                     *)
C26_OneLinePerRow ==
    Rendered =>
        /\ RowCount = Len(rows)
        /\ RowCount >= 1
        /\ NewLines(Output) = RowCount - 1
        /\ Len(Output) = LineStart(RowCount) + Len(Line(RowCount))
        /\ \A r \in 1..RowCount :
               /\ \A i \in 1..Len(Line(r)) : Output[LineStart(r) + i] = Line(r)[i]
               /\ r < RowCount => Output[LineStart(r) + Len(Line(r)) + 1] = "\n"

(* three rows, the first of them an empty line *)
C26_Witness ==
    /\ Rendered
    /\ RowCount = 3
    /\ Line(1) = << >>
    /\ Line(2) # << >>
    /\ Line(3) # << >>
    /\ Output[1] = "\n"

---------------------------------------------------------------------------
(* The three gates as the recognizers' documentation states them, for      *)
(* cluster k and the element about to be placed, in exact arithmetic: a    *)
(* quotient with a zero denominator is not >= anything.                    *)
SmallerHeight(k) == MinH(clusters[k], NextElement)

TypicalLineHeight(k) == MaxH(clusters[k], NextElement)

GateHeight(k) ==
    /\ TypicalLineHeight(k) > 0
    /\ 100 * SmallerHeight(k) >= 40 * TypicalLineHeight(k)

GateAlignment(k) ==
    \/ /\ SmallerHeight(k) > 0
       /\ 100 * 2 * IntHeight(clusters[k], NextElement) >= 50 * SmallerHeight(k)
    \/ 100 * Dist(k) <= 2 * 70 * TypicalLineHeight(k)

BoxesOverlapHorizontally(k) ==
    /\ clusters[k].uLeft < NextElement.left + NextElement.width
    /\ NextElement.left < clusters[k].uRight

GateGrowth(k) ==
    LET unionHeight == Max(clusters[k].uBottom, NextElement.top + NextElement.height)
                         - Min(clusters[k].uTop, NextElement.top)
    IN IF BoxesOverlapHorizontally(k)
       THEN 100 * 2 * unionHeight <= 120 * TypicalLineHeight(k)
       ELSE 100 * 2 * unionHeight <= 200 * TypicalLineHeight(k)

PassesGates(k) == GateHeight(k) /\ GateAlignment(k) /\ GateGrowth(k)

Mergeable == {k \in 1..Len(clusters) : PassesGates(k)}

MergeStep ==
    (v2pc = "cluster" /\ eidx' = eidx + 1)
    => IF Mergeable = {}
       THEN clusters' = Append(clusters, LineCluster(NextElement))
       ELSE \E k \in Mergeable :
               clusters' = [clusters EXCEPT ![k] = AddElement(@, NextElement)]

---------------------------------------------------------------------------
(* the gap before element k of line i is at most the adaptive threshold,   *)
(* 1.0 times the median height of the line's cluster                       *)
SmallGap(i, k) == 200 * GapBefore(i, k) <= 100 * medianHeight(clusters[i])

(* C28: before an element whose gap to the previous element's right edge   *)
(* does not exceed the adaptive threshold, the line has exactly one space  *)
(* if the gap is positive and no space if the gap is zero or negative.     *)
C28_SmallGapSpacing ==
    Recognized
    => \A i \in 1..Len(v2lines) : \A k \in 2..Len(v2lines[i].seps) :
           SmallGap(i, k)
           => v2lines[i].seps[k] = (IF GapBefore(i, k) > 0 THEN 1 ELSE 0)

---------------------------------------------------------------------------
(* DocumentScannerModule (Android).  scanDocuments runs on the native      *)
(* modules thread; the listeners of getStartScanIntent, onActivityResult   *)
(* and the coroutine of CoroutineScope(Dispatchers.Main) run on the main   *)
(* thread, one after the other.  A main-thread handler that settles the    *)
(* promise and then clears the fields is three steps, so that a            *)
(* scanDocuments call can fall between them.  The system delivers one      *)
(* activity result for each scanner activity that was started.             *)

Rejection(code, detail, scan) ==
    [kind |-> "reject", code |-> code, detail |-> detail, scan |-> scan]

Resolution(scan) == [kind |-> "resolve", code |-> "", detail |-> "", scan |-> scan]

OperationFailed(detail, scan) == Rejection("OPERATION_FAILED", detail, scan)

ConfigurationError(detail, scan) == Rejection("CONFIGURATION_ERROR", detail, scan)

Canceled(scan) == Rejection("CANCELED", "User canceled the scan", scan)

(* promise?.resolve(..) / promise?.reject(..): nothing happens on null *)
Settle(outs, promise, outcome) ==
    IF promise = NoPromise THEN outs ELSE [outs EXCEPT ![promise] = Append(@, outcome)]

ScanInProgressNever(held) == FALSE

(* if (scanPromise != null) *)
ScanInProgress(held) == held # NoPromise

InitAndroid ==
    /\ AndroidIdle
    /\ IosIdle
    /\ RecIdle
    /\ NativeIdle
    /\ ScanIdle

(* scanDocuments(options, promise); thrown: where the try block throws *)
AndroidScanDocuments ==
    /\ scanCalls < MaxScanCalls
    /\ scanCalls' = scanCalls + 1
    /\ \E activity \in BOOLEAN, thrown \in {"none", "options", "client"} :
          LET promise == scanCalls + 1
          IN IF ~activity
             THEN /\ outcomes' = Settle(outcomes, promise,
                                        OperationFailed("Activity doesn't exist", promise))
                  /\ UNCHANGED <<scanPromise, currentScanOptions, stage, inFlight>>
             ELSE IF ScanInProgress(scanPromise)
             THEN /\ outcomes' = Settle(outcomes, promise,
                                        OperationFailed("A scan is already in progress", promise))
                  /\ UNCHANGED <<scanPromise, currentScanOptions, stage, inFlight>>
             ELSE IF thrown # "none"
             THEN /\ outcomes' = Settle(outcomes, promise,
                                        ConfigurationError("Unknown error", promise))
                  /\ scanPromise' = NoPromise
                  /\ currentScanOptions' =
                         IF thrown = "client" THEN promise ELSE currentScanOptions
                  /\ UNCHANGED <<stage, inFlight>>
             ELSE /\ scanPromise' = promise
                  /\ currentScanOptions' = promise
                  /\ stage' = "intent"
                  /\ inFlight' = promise
                  /\ UNCHANGED outcomes
    /\ UNCHANGED <<pendingCleanup, recVars, nativeVars, scanVars, iosVars>>

(* addOnSuccessListener: the scanner activity is started, or starting it throws *)
IntentSuccess ==
    /\ stage = "intent"
    /\ pendingCleanup = "none"
    /\ \E throws \in BOOLEAN :
          IF throws
          THEN /\ outcomes' = Settle(outcomes, scanPromise,
                                     OperationFailed("Failed to start scanner activity", inFlight))
               /\ pendingCleanup' = "promise"
               /\ stage' = "idle"
          ELSE /\ stage' = "ui"
               /\ UNCHANGED <<outcomes, pendingCleanup>>
    /\ UNCHANGED <<scanPromise, currentScanOptions, scanCalls, inFlight>>
    /\ UNCHANGED <<recVars, nativeVars, scanVars, iosVars>>

(* addOnFailureListener *)
IntentFailure ==
    /\ stage = "intent"
    /\ pendingCleanup = "none"
    /\ outcomes' = Settle(outcomes, scanPromise,
                          OperationFailed("Failed to launch scanner client", inFlight))
    /\ pendingCleanup' = "promise"
    /\ stage' = "idle"
    /\ UNCHANGED <<scanPromise, currentScanOptions, scanCalls, inFlight>>
    /\ UNCHANGED <<recVars, nativeVars, scanVars, iosVars>>

(* onActivityResult with START_SCAN_REQUEST_CODE; RESULT_OK without data   *)
(* falls through to the branch of the unknown result codes                 *)
OnActivityResult ==
    /\ stage = "ui"
    /\ pendingCleanup = "none"
    /\ \E res \in {"ok", "okNoData", "nullResult", "canceled", "unknown"} :
          IF scanPromise = NoPromise
          THEN /\ stage' = "idle"
               /\ UNCHANGED <<outcomes, pendingCleanup>>
          ELSE IF res = "ok"
          THEN /\ stage' = "processing"
               /\ UNCHANGED <<outcomes, pendingCleanup>>
          ELSE /\ outcomes' = Settle(outcomes, scanPromise,
                      CASE res = "nullResult" ->
                               OperationFailed("Scanning result object was null", inFlight)
                        [] res = "canceled" -> Canceled(inFlight)
                        [] OTHER -> OperationFailed("Unknown Activity result code", inFlight))
               /\ pendingCleanup' = "promiseAndOptions"
               /\ stage' = "idle"
    /\ UNCHANGED <<scanPromise, currentScanOptions, scanCalls, inFlight>>
    /\ UNCHANGED <<recVars, nativeVars, scanVars, iosVars>>

(* the coroutine of the RESULT_OK branch comes to its end: the promise in  *)
(* the field is settled with the pages of the scan in flight               *)
ProcessingDone ==
    /\ stage = "processing"
    /\ pendingCleanup = "none"
    /\ \E failed \in BOOLEAN :
          outcomes' = Settle(outcomes, scanPromise,
                             IF failed THEN OperationFailed("Post-processing failed", inFlight)
                             ELSE Resolution(inFlight))
    /\ pendingCleanup' = "promiseAndOptions"
    /\ stage' = "idle"
    /\ UNCHANGED <<scanPromise, currentScanOptions, scanCalls, inFlight>>
    /\ UNCHANGED <<recVars, nativeVars, scanVars, iosVars>>

(* scanPromise = null *)
ClearPromise ==
    /\ pendingCleanup \in {"promise", "promiseAndOptions"}
    /\ scanPromise' = NoPromise
    /\ pendingCleanup' = IF pendingCleanup = "promiseAndOptions" THEN "options" ELSE "none"
    /\ UNCHANGED <<currentScanOptions, scanCalls, stage, inFlight, outcomes>>
    /\ UNCHANGED <<recVars, nativeVars, scanVars, iosVars>>

(* currentScanOptions = null *)
ClearOptions ==
    /\ pendingCleanup = "options"
    /\ currentScanOptions' = 0
    /\ pendingCleanup' = "none"
    /\ UNCHANGED <<scanPromise, scanCalls, stage, inFlight, outcomes>>
    /\ UNCHANGED <<recVars, nativeVars, scanVars, iosVars>>

NextAndroid ==
    \/ AndroidScanDocuments
    \/ IntentSuccess
    \/ IntentFailure
    \/ OnActivityResult
    \/ ProcessingDone
    \/ ClearPromise
    \/ ClearOptions

SpecAndroid == InitAndroid /\ [][NextAndroid]_vars

---------------------------------------------------------------------------
(* the promises of the calls made that have not been settled *)
Unsettled == {p \in 1..scanCalls : outcomes[p] = << >>}

AtMostOneHeld == Cardinality(Unsettled) <= 1 /\ Unsettled \subseteq {scanPromise}

SettledOnceWithOwnOutcome ==
    \A p \in 1..MaxScanCalls :
        /\ Len(outcomes[p]) <= 1
        /\ \A n \in 1..Len(outcomes[p]) : outcomes[p][n].scan = p

(* nothing of a scan is left to happen: the field is null again *)
NullAfterTerminalPath == (stage = "idle" /\ pendingCleanup = "none") => scanPromise = NoPromise

ScanDocumentsCalled == scanCalls' = scanCalls + 1

NewOutcome == outcomes'[scanCalls']

AlreadyInProgress ==
    << OperationFailed("A scan is already in progress", scanCalls') >>

NoActivity == << OperationFailed("Activity doesn't exist", scanCalls') >>

HeldLeftAlone ==
    /\ UNCHANGED <<scanPromise, currentScanOptions>>
    /\ \A p \in 1..scanCalls : outcomes'[p] = outcomes[p]

(* a call while a promise is held, as the claim states it *)
RejectedAsInProgress ==
    (ScanDocumentsCalled /\ scanPromise # NoPromise)
    => NewOutcome = AlreadyInProgress /\ HeldLeftAlone

(* the same with the check of the activity, which comes first *)
RejectedWhileHeld ==
    (ScanDocumentsCalled /\ scanPromise # NoPromise)
    => NewOutcome \in {AlreadyInProgress, NoActivity} /\ HeldLeftAlone

LaterScanAccepted ==
    (ScanDocumentsCalled /\ scanPromise = NoPromise) => NewOutcome # AlreadyInProgress

(* C29 as stated: at most one scan promise is held; a scanDocuments call   *)
(* made while one is held is rejected at once with OPERATION_FAILED        *)
(* 'A scan is already in progress' and leaves the held promise and         *)
(* currentScanOptions as they are; a promise is settled at most once and   *)
(* with the outcome of its own scan; scanPromise is null after every       *)
(* terminal path, and a later scan is accepted.                            *)
C29_MutualExclusion ==
    /\ [](AtMostOneHeld /\ SettledOnceWithOwnOutcome /\ NullAfterTerminalPath)
    /\ [][RejectedAsInProgress /\ LaterScanAccepted]_vars

(* C29, amended: the call made while a promise is held is rejected with    *)
(* OPERATION_FAILED, 'A scan is already in progress' or, if there is no    *)
(* current activity, 'Activity doesn't exist'; the rest as stated.         *)
C29_MutualExclusionActivity ==
    /\ [](AtMostOneHeld /\ SettledOnceWithOwnOutcome /\ NullAfterTerminalPath)
    /\ [][RejectedWhileHeld /\ LaterScanAccepted]_vars

(* the first scan was resolved, a call made during it was rejected, and    *)
(* the call after it holds the promise                                     *)
C29_Witness ==
    /\ outcomes[1] = << Resolution(1) >>
    /\ outcomes[2] = << OperationFailed("A scan is already in progress", 2) >>
    /\ scanPromise = 3
    /\ currentScanOptions = 3

---------------------------------------------------------------------------
(* DocumentScannerManager (iOS).  Each handler is one step.  A call's work *)
(* is "queued" (the block sent to the main queue), "ui" (the scanner is    *)
(* presented), "working" (the block on the global queue), "finished", or   *)
(* "dropped" (UIKit does not present a second controller on a controller   *)
(* that is already presenting one, and no delegate call follows).          *)

Job(kind, at) == [kind |-> kind, at |-> at]

(* self.reject?("error", error.localizedDescription, error) *)
IosError(detail, call) == Rejection("error", detail, call)

InitIos ==
    /\ IosIdle
    /\ AndroidIdle
    /\ RecIdle
    /\ NativeIdle
    /\ ScanIdle

(* scanDocuments(options, resolve, reject) *)
IosScanDocuments ==
    /\ iosCalls < MaxIosCalls
    /\ iosCalls' = iosCalls + 1
    /\ resolve' = iosCalls + 1
    /\ reject' = iosCalls + 1
    /\ scanOptions' = iosCalls + 1
    /\ jobs' = [jobs EXCEPT ![iosCalls + 1] = Job("scan", "queued")]
    /\ UNCHANGED <<iosOutcomes, recVars, nativeVars, scanVars, androidVars>>

(* processDocuments(options, resolve, reject) *)
IosProcessDocuments ==
    /\ iosCalls < MaxIosCalls
    /\ iosCalls' = iosCalls + 1
    /\ resolve' = iosCalls + 1
    /\ reject' = iosCalls + 1
    /\ jobs' = [jobs EXCEPT ![iosCalls + 1] = Job("process", "working")]
    /\ UNCHANGED <<scanOptions, iosOutcomes, recVars, nativeVars, scanVars, androidVars>>

(* the block of scanDocuments on the main queue *)
PresentScanner ==
    \E call \in 1..iosCalls : \E found \in {"notSupported", "noTopController", "present"} :
        /\ jobs[call] = Job("scan", "queued")
        /\ IF found = "present"
           THEN /\ jobs' = [jobs EXCEPT ![call].at =
                                IF \E other \in 1..iosCalls : jobs[other].at = "ui"
                                THEN "dropped" ELSE "ui"]
                /\ UNCHANGED <<resolve, reject, scanOptions, iosOutcomes>>
           ELSE /\ iosOutcomes' = Settle(iosOutcomes, reject, IosError(found, call))
                /\ resolve' = NoPromise
                /\ reject' = NoPromise
                /\ scanOptions' = 0
                /\ jobs' = [jobs EXCEPT ![call].at = "finished"]
        /\ UNCHANGED <<iosCalls, recVars, nativeVars, scanVars, androidVars>>

(* documentCameraViewController(_:didFinishWith:): processScan is sent to  *)
(* the global queue                                                        *)
IosDidFinish ==
    \E call \in 1..iosCalls :
        /\ jobs[call] = Job("scan", "ui")
        /\ jobs' = [jobs EXCEPT ![call].at = "working"]
        /\ UNCHANGED <<resolve, reject, scanOptions, iosCalls, iosOutcomes>>
        /\ UNCHANGED <<recVars, nativeVars, scanVars, androidVars>>

(* documentCameraViewControllerDidCancel and didFailWithError: rejectError *)
IosDidCancelOrFail ==
    \E call \in 1..iosCalls : \E error \in {"canceled", "operationFailed"} :
        /\ jobs[call] = Job("scan", "ui")
        /\ iosOutcomes' = Settle(iosOutcomes, reject, IosError(error, call))
        /\ resolve' = NoPromise
        /\ reject' = NoPromise
        /\ scanOptions' = 0
        /\ jobs' = [jobs EXCEPT ![call].at = "finished"]
        /\ UNCHANGED <<iosCalls, recVars, nativeVars, scanVars, androidVars>>

(* the block of processScan or of processDocuments on the global queue     *)
(* comes to its end: self.resolve?(results) or rejectError, then cleanup() *)
IosWorkDone ==
    \E call \in 1..iosCalls : \E found \in {"missingImages", "noValidImages", "results"} :
        /\ jobs[call].at = "working"
        /\ jobs[call].kind = "scan" => found = "results"
        /\ iosOutcomes' =
              IF found = "results"
              THEN Settle(iosOutcomes, resolve, Resolution(call))
              ELSE Settle(iosOutcomes, reject, IosError(found, call))
        /\ resolve' = NoPromise
        /\ reject' = NoPromise
        /\ scanOptions' = 0
        /\ jobs' = [jobs EXCEPT ![call].at = "finished"]
        /\ UNCHANGED <<iosCalls, recVars, nativeVars, scanVars, androidVars>>

NextIos ==
    \/ IosScanDocuments
    \/ IosProcessDocuments
    \/ PresentScanner
    \/ IosDidFinish
    \/ IosDidCancelOrFail
    \/ IosWorkDone

SpecIos == InitIos /\ [][NextIos]_vars

---------------------------------------------------------------------------
(* no work of any call is left to happen *)
IosQuiescent == \A call \in 1..iosCalls : jobs[call].at \in {"finished", "dropped"}

(* C30: every promise passed to scanDocuments or processDocuments is       *)
(* settled exactly once, with the result or error of its own call, also    *)
(* when a second call is made before the first has settled: no promise     *)
(* has two settlements or one of another call, and when no work is left    *)
(* every promise has its settlement.                                       *)
C30_PromiseIntegrity ==
    \A p \in 1..MaxIosCalls :
        /\ Len(iosOutcomes[p]) <= 1
        /\ \A n \in 1..Len(iosOutcomes[p]) : iosOutcomes[p][n].scan = p
        /\ (IosQuiescent /\ p <= iosCalls) => Len(iosOutcomes[p]) = 1

====
